---- MODULE Spec2Model ----
(***************************************************************************)
(* Model of app93.py: the Completion Client (call_groq), the fill          *)
(* workflow (call_groq_chunk, groq_fill_missing), the question-answering   *)
(* workflow (groq_answer_question), the PDF renderer (generate_pdf) and    *)
(* the Streamlit script (session state and the upload / fill / question    *)
(* flow).                                                                  *)
(*                                                                         *)
(* Python strings on which the code computes (len, slicing, strip, split,  *)
(* join, truthiness) are run-length encoded: a string is a sequence of     *)
(* runs <<c, n>>, n >= 1 copies of the character c, adjacent runs having   *)
(* different characters, so that equality of encodings is equality of      *)
(* strings.  Python's None and "a value" are <<>> and <<value>>.           *)
(***************************************************************************)
EXTENDS Integers, Sequences, FiniteSets, TLC

VARIABLES
    GROQ_API_KEY,   \* module global, line 16 ("" when the variable is unset)
    ocr_text,       \* st.session_state.ocr_text
    filled_text,    \* st.session_state.filled_text
    qa_history,     \* st.session_state.qa_history
    uploaded_file,  \* value of the file_uploader widget (None or a document)
    question,       \* value of the text_input widget ("" when empty)
    run,            \* what the last script run did (observation of its effects)
    ocr_runs,       \* number of pdf_to_text calls made for the current upload
    reruns,         \* number of script runs so far
    call            \* last direct application of a function: arguments and result

vars == <<GROQ_API_KEY, ocr_text, filled_text, qa_history, uploaded_file,
          question, run, ocr_runs, reruns, call>>

session == <<ocr_text, filled_text, qa_history, uploaded_file, question,
             run, ocr_runs, reruns>>

-----------------------------------------------------------------------------
(* Python values *)

None == <<>>

Some(v) == <<v>>

EmptyStr == <<>>

Whitespace == {" ", "\t", "\n", "\r"}

\* len(s)
RECURSIVE StrLen(_)
StrLen(s) ==
    IF s = <<>> THEN 0 ELSE s[1][2] + StrLen(Tail(s))

\* s + t
Cat(s, t) ==
    IF s = <<>> THEN t
    ELSE IF t = <<>> THEN s
    ELSE IF s[Len(s)][1] = t[1][1]
         THEN SubSeq(s, 1, Len(s) - 1)
                \o << <<t[1][1], s[Len(s)][2] + t[1][2]>> >> \o Tail(t)
         ELSE s \o t

\* the string of the characters cs, in order
RECURSIVE Str(_)
Str(cs) ==
    IF cs = <<>> THEN EmptyStr ELSE Cat(<< <<cs[1], 1>> >>, Str(Tail(cs)))

\* s[:n], n >= 0
RECURSIVE Take(_, _)
Take(s, n) ==
    IF n <= 0 \/ s = <<>> THEN <<>>
    ELSE IF s[1][2] <= n THEN <<s[1]>> \o Take(Tail(s), n - s[1][2])
    ELSE << <<s[1][1], n>> >>

\* s[n:], n >= 0
RECURSIVE Drop(_, _)
Drop(s, n) ==
    IF s = <<>> THEN <<>>
    ELSE IF n <= 0 THEN s
    ELSE IF s[1][2] <= n THEN Drop(Tail(s), n - s[1][2])
    ELSE << <<s[1][1], s[1][2] - n>> >> \o Tail(s)

\* s[i:j], 0 <= i <= j
Slice(s, i, j) == Take(Drop(s, i), j - i)

RECURSIVE LStrip(_)
LStrip(s) ==
    IF s = <<>> THEN <<>>
    ELSE IF s[1][1] \in Whitespace THEN LStrip(Tail(s))
    ELSE s

RECURSIVE RStrip(_)
RStrip(s) ==
    IF s = <<>> THEN <<>>
    ELSE IF s[Len(s)][1] \in Whitespace THEN RStrip(SubSeq(s, 1, Len(s) - 1))
    ELSE s

\* s.strip()
Strip(s) == RStrip(LStrip(s))

\* sep.join(parts)
RECURSIVE Join(_, _)
Join(sep, parts) ==
    IF parts = <<>> THEN EmptyStr
    ELSE IF Len(parts) = 1 THEN parts[1]
    ELSE Cat(Cat(parts[1], sep), Join(sep, Tail(parts)))

\* n copies of the empty string
Empties(n) == [i \in 1..n |-> EmptyStr]

\* s.split(c), continued: cur is the piece being read, acc the pieces read
RECURSIVE SplitFrom(_, _, _, _)
SplitFrom(s, c, cur, acc) ==
    IF s = <<>> THEN Append(acc, cur)
    ELSE IF s[1][1] = c
         THEN SplitFrom(Tail(s), c, EmptyStr,
                        Append(acc, cur) \o Empties(s[1][2] - 1))
         ELSE SplitFrom(Tail(s), c, Append(cur, s[1]), acc)

\* s.split(c) for a one-character separator c
Split(s, c) == SplitFrom(s, c, EmptyStr, <<>>)

-----------------------------------------------------------------------------
(* Completion Client *)

HTTP_OK == 200

MaxAttempts == 3

SleepSeconds == 2

MissingKey == "Missing GROQ_API_KEY"

FailedAfterRetries == "Failed after retries"

\* What the transport does to one requests.post: it raises (timeout,
\* connection error), or it answers with a status code; `content` is
\* Some(resp.json()['choices'][0]['message']['content']) when the body has
\* that shape and None when reading it raises.
Response(raised, status_code, content) ==
    [raised |-> raised, status_code |-> status_code, content |-> content]

\* a retry loop that gives up one attempt early
RECURSIVE retry_loop_short(_, _, _, _)
retry_loop_short(attempt, transport, posts, slept) ==
    IF attempt + 1 >= MaxAttempts
    THEN [content |-> None, err |-> Some(FailedAfterRetries),
          posts |-> posts, slept |-> slept]
    ELSE LET resp == transport[attempt + 1] IN
         IF /\ ~resp.raised
            /\ resp.status_code = HTTP_OK
            /\ resp.content # None
         THEN [content |-> Some(Strip(resp.content[1])), err |-> None,
               posts |-> posts + 1, slept |-> slept]
         ELSE retry_loop_short(attempt + 1, transport, posts + 1,
                               slept + SleepSeconds)

\* lines 71-87: the retry loop from attempt number `attempt` (0-based), after
\* `posts` requests and `slept` seconds of sleep; transport[i] is what the
\* i-th request of this call meets.
RECURSIVE retry_loop(_, _, _, _)
retry_loop(attempt, transport, posts, slept) ==
    IF attempt >= MaxAttempts
    THEN [content |-> None, err |-> Some(FailedAfterRetries),
          posts |-> posts, slept |-> slept]
    ELSE LET resp == transport[attempt + 1] IN
         IF /\ ~resp.raised
            /\ resp.status_code = HTTP_OK
            /\ resp.content # None
         THEN [content |-> Some(Strip(resp.content[1])), err |-> None,
               posts |-> posts + 1, slept |-> slept]
         ELSE retry_loop(attempt + 1, transport, posts + 1,
                         slept + SleepSeconds)

\* a client that goes to the network without looking at the key
call_groq_unchecked(key, prompt, temperature, max_tokens, transport) ==
    retry_loop(0, transport, 0, 0)

\* call_groq(prompt, temperature, max_tokens) with the module global `key`;
\* the result carries the returned pair and the numbers of requests.post
\* calls and of seconds slept.
call_groq(key, prompt, temperature, max_tokens, transport) ==
    IF key = ""
    THEN [content |-> None, err |-> Some(MissingKey), posts |-> 0, slept |-> 0]
    ELSE retry_loop(0, transport, 0, 0)

-----------------------------------------------------------------------------
(* Fill workflow and question-answering workflow *)

SPLIT_THRESHOLD == 8000

CHUNK_SIZE == 4000

\* "AI filling failed."
FillFallback ==
    Str(<<"A", "I", " ", "f", "i", "l", "l", "i", "n", "g", " ",
          "f", "a", "i", "l", "e", "d", ".">>)

\* "AI failed to answer."
AnswerFallback ==
    Str(<<"A", "I", " ", "f", "a", "i", "l", "e", "d", " ",
          "t", "o", " ", "a", "n", "s", "w", "e", "r", ".">>)

\* The f-string prompts: a fixed template with the form text (and the
\* question) substituted in.
FillPrompt(chunk) == [template |-> "fill", form |-> chunk]

AnswerPrompt(text, q) == [template |-> "answer", form |-> text, question |-> q]

\* `content if content else fallback`
OrElse(content, fallback) ==
    IF content # None /\ content[1] # EmptyStr THEN content[1] ELSE fallback

\* call_groq_chunk(chunk): the request it hands to call_groq, what call_groq
\* returned, and the value it returns itself.
call_groq_chunk(chunk, key, transport) ==
    LET prompt == FillPrompt(chunk)
        groq   == call_groq(key, prompt, "0.2", 1300, transport)
    IN  [chunk |-> chunk,
         request |-> [prompt |-> prompt, temperature |-> "0.2",
                      max_tokens |-> 1300],
         groq |-> groq,
         ret |-> OrElse(groq.content, FillFallback)]

\* chunks that each run one character into the next
RECURSIVE chunks_overlapping(_, _, _)
chunks_overlapping(text, from, size) ==
    IF from >= StrLen(text) THEN <<>>
    ELSE <<Slice(text, from, from + size + 1)>>
            \o chunks_overlapping(text, from + size, size)

\* [text[i:i+size] for i in range(from, len(text), size)]
RECURSIVE chunks_from(_, _, _)
chunks_from(text, from, size) ==
    IF from >= StrLen(text) THEN <<>>
    ELSE <<Slice(text, from, from + size)>>
            \o chunks_from(text, from + size, size)

\* line 104
Chunks(text) == chunks_from(text, 0, CHUNK_SIZE)

\* lines 106-109: the loop over the chunks from index idx on; oracle[n] is the
\* transport met by the n-th call_groq of this application (the oracle is
\* read cyclically), calls the calls made so far, in order.
RECURSIVE fill_loop(_, _, _, _, _)
fill_loop(chunks, idx, key, oracle, calls) ==
    IF idx > Len(chunks) THEN calls
    ELSE fill_loop(chunks, idx + 1, key, oracle,
            Append(calls,
                   call_groq_chunk(chunks[idx], key,
                                   oracle[(Len(calls) % Len(oracle)) + 1])))

\* a workflow that already splits a text of exactly the threshold length
groq_fill_missing_ge(text, key, oracle) ==
    IF StrLen(text) >= SPLIT_THRESHOLD
    THEN LET chunks == Chunks(text)
             calls  == fill_loop(chunks, 1, key, oracle, <<>>)
         IN  [split |-> TRUE, chunks |-> chunks, calls |-> calls,
              ret |-> Join(Str(<<"\n">>),
                           [i \in 1..Len(calls) |-> calls[i].ret])]
    ELSE LET c == call_groq_chunk(text, key, oracle[1])
         IN  [split |-> FALSE, chunks |-> <<text>>, calls |-> <<c>>,
              ret |-> c.ret]

\* groq_fill_missing(text): the returned string and the calls of
\* call_groq_chunk it made, in the order it made them.
groq_fill_missing(text, key, oracle) ==
    IF StrLen(text) > SPLIT_THRESHOLD
    THEN LET chunks == Chunks(text)
             calls  == fill_loop(chunks, 1, key, oracle, <<>>)
         IN  [split |-> TRUE, chunks |-> chunks, calls |-> calls,
              ret |-> Join(Str(<<"\n">>),
                           [i \in 1..Len(calls) |-> calls[i].ret])]
    ELSE LET c == call_groq_chunk(text, key, oracle[1])
         IN  [split |-> FALSE, chunks |-> <<text>>, calls |-> <<c>>,
              ret |-> c.ret]

\* groq_answer_question(filled_text, question)
groq_answer_question(text, q, key, transport) ==
    LET prompt == AnswerPrompt(text, q)
        groq   == call_groq(key, prompt, "0.0", 400, transport)
    IN  [request |-> [prompt |-> prompt, temperature |-> "0.0",
                      max_tokens |-> 400],
         groq |-> groq,
         ret |-> OrElse(groq.content, AnswerFallback)]

-----------------------------------------------------------------------------
(* PDF renderer *)

PAGE_HEIGHT == 792

MARGIN == 40

TITLE_GAP == 30

LINE_HEIGHT == 12

WRAP_WIDTH == 110

-----------------------------------------------------------------------------
(* Inputs *)

\* number of runs of the texts handed to groq_fill_missing
MaxRuns == 2

\* number of runs of the texts handed to generate_pdf
PdfMaxRuns == 3

\* period of the transport oracle of a workflow: the number of consecutive
\* call_groq calls whose transports are chosen independently
OracleLen == 3

\* number of script runs of a session
MaxReruns == 4

Keys == {"", "gsk"}

\* the strings of at most n runs drawn from runs
RECURSIVE StrsOf(_, _)
StrsOf(runs, n) ==
    IF n = 0 THEN {EmptyStr}
    ELSE LET shorter == StrsOf(runs, n - 1)
         IN  shorter \cup
             { Append(s, r) : s \in {t \in shorter : Len(t) = n - 1},
                              r \in runs }

NormalForm(s) == \A i \in 1..(Len(s) - 1) : s[i][1] # s[i + 1][1]

Strs(runs, n) == {s \in StrsOf(runs, n) : NormalForm(s)}

FillTexts ==
    Strs({"a", "b"} \X {1, 3999, 4000, 4001, 8000, 8001}, MaxRuns)

PdfTexts ==
    Strs(({"a"} \X {1, 110, 111, 6271}) \cup ({" "} \X {1, 111})
           \cup ({"\n"} \X {1, 57}),
         PdfMaxRuns)

Ok == Str(<<"o", "k">>)

No == Str(<<"n", "o">>)

Contents == {Ok, Str(<<" ", "o", "k", "\n">>), Str(<<" ", " ">>), EmptyStr}

Responses ==
    { Response(FALSE, HTTP_OK, Some(c)) : c \in Contents }
      \cup { Response(FALSE, HTTP_OK, None),
             Response(FALSE, 500, None),
             Response(FALSE, 500, Some(Ok)),
             Response(TRUE, 0, None) }

Transports == [1..MaxAttempts -> Responses]

\* the transports a workflow's oracle is made of: an immediate answer, an
\* answer on the second attempt, three failures, a blank answer, an answer on
\* the third attempt
Scenarios ==
    { <<Response(FALSE, HTTP_OK, Some(Ok)), Response(TRUE, 0, None),
        Response(TRUE, 0, None)>>,
      <<Response(FALSE, 500, None),
        Response(FALSE, HTTP_OK, Some(Str(<<" ", "o", "k", "\n">>))),
        Response(TRUE, 0, None)>>,
      <<Response(TRUE, 0, None), Response(FALSE, 500, None),
        Response(FALSE, HTTP_OK, None)>>,
      <<Response(FALSE, HTTP_OK, Some(Str(<<" ", " ">>))),
        Response(FALSE, HTTP_OK, Some(Ok)), Response(TRUE, 0, None)>>,
      <<Response(TRUE, 0, None), Response(FALSE, HTTP_OK, None),
        Response(FALSE, HTTP_OK, Some(No))>> }

Oracles == [1..OracleLen -> Scenarios]

Prompts == {FillPrompt(Ok), AnswerPrompt(Ok, "q1")}

-----------------------------------------------------------------------------
(* State *)

\* lines 158-163, before any upload
Init ==
    /\ GROQ_API_KEY \in Keys
    /\ ocr_text = EmptyStr
    /\ filled_text = EmptyStr
    /\ qa_history = <<>>
    /\ uploaded_file = None
    /\ question = ""
    /\ run = None
    /\ ocr_runs = 0
    /\ reruns = 0
    /\ call = None

\* a call of call_groq, the first of the behaviour
CallGroq ==
    /\ call = None
    /\ \E prompt \in Prompts, temperature \in {"0.0", "0.2"},
          max_tokens \in {400, 1300}, transport \in Transports :
          call' = Some([fn |-> "call_groq", prompt |-> prompt,
                        temperature |-> temperature,
                        max_tokens |-> max_tokens, transport |-> transport,
                        ret |-> call_groq(GROQ_API_KEY, prompt, temperature,
                                          max_tokens, transport)])
    /\ UNCHANGED <<GROQ_API_KEY, session>>

SpecGroq == Init /\ [][CallGroq]_vars

\* a call of groq_fill_missing, the first of the behaviour
CallFill ==
    /\ call = None
    /\ \E text \in FillTexts, oracle \in Oracles :
          call' = Some([fn |-> "groq_fill_missing", text |-> text,
                        ret |-> groq_fill_missing(text, GROQ_API_KEY, oracle)])
    /\ UNCHANGED <<GROQ_API_KEY, session>>

SpecFill == Init /\ [][CallFill]_vars

-----------------------------------------------------------------------------
(* generate_pdf, one step per statement of its loops.  The activation record
   of the call is held in `call`: at is the position in the code, lines the
   value of filled_text.split("\n"), i the index of the line the for loop is
   at, line the loop variable (shortened by the wrap loop), y the cursor and
   page the page being drawn on.  drawn is the last drawString call, draws the
   drawString calls made for the current input line, and done what the loop
   did with the last input line it finished. *)

Frame == call[1]

NoLine == [line |-> EmptyStr, y0 |-> 0, draws |-> <<>>, y1 |-> 0]

\* a wrap test that also wraps a line that fits exactly
wrap_needed_ge(line) == StrLen(line) >= WRAP_WIDTH

\* line 143: `while len(line) > 110`
wrap_needed(line) == StrLen(line) > WRAP_WIDTH

\* lines 131-138
PdfBegin ==
    /\ call = None
    /\ \E text \in PdfTexts :
          call' = Some([fn |-> "generate_pdf", text |-> text, at |-> "for",
                        lines |-> Split(text, "\n"), i |-> 1,
                        line |-> EmptyStr,
                        y |-> PAGE_HEIGHT - MARGIN - TITLE_GAP, y0 |-> 0,
                        page |-> 1,
                        drawn |-> [title |-> TRUE, page |-> 1,
                                   y |-> PAGE_HEIGHT - MARGIN,
                                   s |-> EmptyStr],
                        draws |-> <<>>, done |-> NoLine])
    /\ UNCHANGED <<GROQ_API_KEY, session>>

InPdf(at) ==
    /\ call # None
    /\ Frame.fn = "generate_pdf"
    /\ Frame.at = at

\* lines 139-142: the for loop takes the next line; a blank line moves the
\* cursor and the loop continues, any other line goes to the wrap loop
PdfNextLine ==
    /\ InPdf("for")
    /\ Frame.i <= Len(Frame.lines)
    /\ LET line == Frame.lines[Frame.i] IN
       IF Strip(line) = EmptyStr
       THEN call' = Some([Frame EXCEPT
                            !.i = @ + 1,
                            !.line = line,
                            !.y = @ - LINE_HEIGHT,
                            !.y0 = Frame.y,
                            !.draws = <<>>,
                            !.done = [line |-> line, y0 |-> Frame.y,
                                      draws |-> <<>>,
                                      y1 |-> Frame.y - LINE_HEIGHT]])
       ELSE call' = Some([Frame EXCEPT
                            !.at = "while",
                            !.line = line,
                            !.y0 = Frame.y,
                            !.draws = <<>>])
    /\ UNCHANGED <<GROQ_API_KEY, session>>

\* lines 143-146: one iteration of the wrap loop
PdfWrap ==
    /\ InPdf("while")
    /\ wrap_needed(Frame.line)
    /\ LET d == [title |-> FALSE, page |-> Frame.page, y |-> Frame.y,
                 s |-> Take(Frame.line, WRAP_WIDTH)]
       IN  call' = Some([Frame EXCEPT
                           !.drawn = d,
                           !.draws = Append(@, d),
                           !.line = Drop(@, WRAP_WIDTH),
                           !.y = @ - LINE_HEIGHT])
    /\ UNCHANGED <<GROQ_API_KEY, session>>

\* lines 147-152: the wrap loop is over; the remainder is drawn, the cursor
\* moved and the page turned when the cursor is below the margin
PdfDraw ==
    /\ InPdf("while")
    /\ ~wrap_needed(Frame.line)
    /\ LET d     == [title |-> FALSE, page |-> Frame.page, y |-> Frame.y,
                     s |-> Strip(Frame.line)]
           y     == Frame.y - LINE_HEIGHT
           turn  == y < MARGIN
           draws == Append(Frame.draws, d)
       IN  call' = Some([Frame EXCEPT
                           !.at = "for",
                           !.i = @ + 1,
                           !.drawn = d,
                           !.draws = draws,
                           !.y = IF turn THEN PAGE_HEIGHT - MARGIN ELSE y,
                           !.page = IF turn THEN @ + 1 ELSE @,
                           !.done = [line |-> Frame.lines[Frame.i],
                                     y0 |-> Frame.y0, draws |-> draws,
                                     y1 |-> y]])
    /\ UNCHANGED <<GROQ_API_KEY, session>>

\* lines 153-155
PdfSave ==
    /\ InPdf("for")
    /\ Frame.i > Len(Frame.lines)
    /\ call' = Some([Frame EXCEPT !.at = "return"])
    /\ UNCHANGED <<GROQ_API_KEY, session>>

NextPdf == PdfBegin \/ PdfNextLine \/ PdfWrap \/ PdfDraw \/ PdfSave

SpecPdf == Init /\ [][NextPdf]_vars

-----------------------------------------------------------------------------
(* OCR adapter and the Streamlit script *)

\* An uploaded PDF: whether convert_from_bytes rasterizes it, and for each of
\* its pages the value clean_text returns for the page's OCR text.
Doc(name, rasterizes, pages) ==
    [name |-> name, rasterizes |-> rasterizes, pages |-> pages]

Docs ==
    { Doc("unreadable.pdf", FALSE, <<>>),
      Doc("form.pdf", TRUE, <<Ok>>),
      Doc("long.pdf", TRUE, << << <<"a", 8001>> >>, Ok >>) }

Questions == {"q1", "q2"}

\* the transports of the script's oracle: an immediate answer, three failures
UIScenarios ==
    { <<Response(FALSE, HTTP_OK, Some(Ok)), Response(TRUE, 0, None),
        Response(TRUE, 0, None)>>,
      <<Response(TRUE, 0, None), Response(FALSE, 500, None),
        Response(FALSE, HTTP_OK, None)>> }

UIOracles == [1..OracleLen -> UIScenarios]

\* lines 53-57: full_text after the pages from index i on
RECURSIVE ocr_pages(_, _, _)
ocr_pages(pages, i, full_text) ==
    IF i > Len(pages) THEN full_text
    ELSE ocr_pages(pages, i + 1,
                   Cat(Cat(full_text, pages[i]), Str(<<"\n", "\n">>)))

\* pdf_to_text(pdf_file)
pdf_to_text(doc) ==
    IF ~doc.rasterizes THEN EmptyStr ELSE ocr_pages(doc.pages, 1, EmptyStr)

\* The script, lines 158-199, run once from top to bottom: `file` is the value
\* of the file uploader in this run, `fill` whether the run was caused by a
\* click on the fill button, q the value of the question input and oracle the
\* transports that the run's calls of call_groq meet, in order.  A widget the
\* run does not reach loses its value.
Script(action, file, fill, q, oracle) ==
    LET ocr    == file # None /\ ocr_text = EmptyStr
        text   == IF ocr THEN pdf_to_text(file[1]) ELSE ocr_text
        clicked == file # None /\ fill
        f      == groq_fill_missing(text, GROQ_API_KEY, oracle)
        filled == IF clicked THEN f.ret ELSE filled_text
        nfill  == IF clicked THEN Len(f.calls) ELSE 0
        shown  == file # None /\ filled # EmptyStr
        ask    == shown /\ q # ""
        a      == groq_answer_question(filled, q, GROQ_API_KEY,
                                       oracle[(nfill % OracleLen) + 1])
    IN  /\ ocr_text' = text
        /\ filled_text' = filled
        /\ qa_history' = IF ask
                         THEN Append(qa_history,
                                     [question |-> q, answer |-> a.ret])
                         ELSE qa_history
        /\ uploaded_file' = file
        /\ question' = IF shown THEN q ELSE ""
        /\ run' = Some([action |-> action, ocr |-> ocr, fill_calls |-> nfill,
                        qa_calls |-> IF ask THEN 1 ELSE 0])
        /\ ocr_runs' = (IF file = uploaded_file THEN ocr_runs ELSE 0)
                         + (IF ocr THEN 1 ELSE 0)
        /\ reruns' = reruns + 1
        /\ UNCHANGED <<GROQ_API_KEY, call>>

\* the fill button was drawn enabled by the last run (line 176)
FillEnabled == uploaded_file # None /\ ocr_text # EmptyStr

\* the question input was drawn by the last run (lines 180-188)
QuestionShown == uploaded_file # None /\ filled_text # EmptyStr

\* the user uploads a document
Upload ==
    /\ reruns < MaxReruns
    /\ \E doc \in Docs, oracle \in UIOracles :
          /\ uploaded_file # Some(doc)
          /\ Script("upload", Some(doc), FALSE, question, oracle)

\* the user removes the uploaded document
RemoveFile ==
    /\ reruns < MaxReruns
    /\ uploaded_file # None
    /\ \E oracle \in UIOracles :
          Script("remove", None, FALSE, question, oracle)

\* the user clicks "AI: Fill Missing Fields"
ClickFill ==
    /\ reruns < MaxReruns
    /\ FillEnabled
    /\ \E oracle \in UIOracles :
          Script("fill", uploaded_file, TRUE, question, oracle)

\* the user types a question into the question input and submits it
SubmitQuestion ==
    /\ reruns < MaxReruns
    /\ QuestionShown
    /\ \E q \in Questions \ {question}, oracle \in UIOracles :
          Script("submit", uploaded_file, FALSE, q, oracle)

\* the user empties the question input
ClearQuestion ==
    /\ reruns < MaxReruns
    /\ QuestionShown
    /\ question # ""
    /\ \E oracle \in UIOracles :
          Script("clear", uploaded_file, FALSE, "", oracle)

\* any other rerun of the script: the user edits a text area, clicks the
\* download button or asks for a rerun
Rerun ==
    /\ reruns < MaxReruns
    /\ \E oracle \in UIOracles :
          Script("rerun", uploaded_file, FALSE, question, oracle)

Next ==
    \/ Upload
    \/ RemoveFile
    \/ ClickFill
    \/ SubmitQuestion
    \/ ClearQuestion
    \/ Rerun

Spec == Init /\ [][Next]_vars

-----------------------------------------------------------------------------
(* Properties of the Completion Client *)

GroqCall == call # None /\ call[1].fn = "call_groq"

Answered200(r) == ~r.raised /\ r.status_code = HTTP_OK

Usable200(r) == Answered200(r) /\ r.content # None

\* the index of the first attempt whose response satisfies P, 0 if there is none
FirstAttempt(transport, P(_)) ==
    IF \E i \in 1..MaxAttempts : P(transport[i])
    THEN CHOOSE i \in 1..MaxAttempts :
            P(transport[i]) /\ \A j \in 1..(i - 1) : ~P(transport[j])
    ELSE 0

\* C1 as stated: with a key, the call makes min(k, 3) requests, k the first
\* attempt answered with HTTP 200; it returns that attempt's trimmed content
\* and no error, or (None, "Failed after retries") after 3 requests.
C1_AsClaimed ==
    (GroqCall /\ GROQ_API_KEY # "") =>
        LET c == call[1]
            k == FirstAttempt(c.transport, Answered200)
        IN  IF k # 0
            THEN /\ c.ret.posts = k
                 /\ c.ret.err = None
                 /\ c.transport[k].content # None
                 /\ c.ret.content = Some(Strip(c.transport[k].content[1]))
            ELSE /\ c.ret.posts = MaxAttempts
                 /\ c.ret.content = None
                 /\ c.ret.err = Some(FailedAfterRetries)

\* C1 amended: with a key, the call makes min(k, 3) requests, k the first
\* attempt answered with HTTP 200 and a body holding the first choice's
\* message content (an HTTP 200 whose body cannot be read is retried like any
\* failure); it returns that attempt's trimmed content and no error, or
\* (None, "Failed after retries") after 3 requests.
C1_Attempts ==
    (GroqCall /\ GROQ_API_KEY # "") =>
        LET c == call[1]
            k == FirstAttempt(c.transport, Usable200)
        IN  IF k # 0
            THEN /\ c.ret.posts = k
                 /\ c.ret.err = None
                 /\ c.ret.content = Some(Strip(c.transport[k].content[1]))
            ELSE /\ c.ret.posts = MaxAttempts
                 /\ c.ret.content = None
                 /\ c.ret.err = Some(FailedAfterRetries)

\* a call that met a 200 without a readable body, then a non-200 answer, then
\* a usable 200 with padded content
C1_Witness ==
    /\ GroqCall
    /\ GROQ_API_KEY # ""
    /\ call[1].transport[1] = Response(FALSE, HTTP_OK, None)
    /\ call[1].transport[2] = Response(FALSE, 500, Some(Ok))
    /\ call[1].transport[3]
         = Response(FALSE, HTTP_OK, Some(Str(<<" ", "o", "k", "\n">>)))
    /\ call[1].ret.posts = 3
    /\ call[1].ret.content = Some(Ok)

\* C2: every result of call_groq has exactly one of its two components None,
\* and a returned text is never the empty string.
C2_TextOrReason ==
    GroqCall =>
        /\ (call[1].ret.content = None) # (call[1].ret.err = None)
        /\ call[1].ret.content # Some(EmptyStr)

\* C3: without a key, call_groq returns (None, "Missing GROQ_API_KEY") and
\* has made no request and slept no second, whatever its arguments.
C3_MissingKey ==
    (GroqCall /\ GROQ_API_KEY = "") =>
        /\ call[1].ret.content = None
        /\ call[1].ret.err = Some(MissingKey)
        /\ call[1].ret.posts = 0
        /\ call[1].ret.slept = 0

\* a call without a key whose transport would have answered at once
C3_Witness ==
    /\ GroqCall
    /\ GROQ_API_KEY = ""
    /\ Usable200(call[1].transport[1])
    /\ call[1].ret.err = Some(MissingKey)

-----------------------------------------------------------------------------
(* Properties of the fill workflow *)

FillCall == call # None /\ call[1].fn = "groq_fill_missing"

Ceil(n, d) == (n + d - 1) \div d

\* C6: the value returned by groq_fill_missing is the newline-joined sequence,
\* in chunk order, of each chunk's call_groq content if that call succeeded
\* (returned no error) and of "AI filling failed." if it failed.
C6_Segments ==
    FillCall =>
        LET calls == call[1].ret.calls
            segment(i) == IF calls[i].groq.err = None
                          THEN calls[i].groq.content[1]
                          ELSE FillFallback
        IN  call[1].ret.ret
              = Join(Str(<<"\n">>), [i \in 1..Len(calls) |-> segment(i)])

\* C7: the prompts handed to call_groq are, in order, the whole text when
\* len(text) <= 8000 and otherwise the 4000-character slices of the text,
\* one call per slice.
C7_Requests ==
    FillCall =>
        LET text  == call[1].text
            calls == call[1].ret.calls
            n     == StrLen(text)
        IN  IF n <= 8000
            THEN /\ Len(calls) = 1
                 /\ calls[1].request.prompt = FillPrompt(text)
            ELSE /\ Len(calls) = Ceil(n, 4000)
                 /\ \A k \in 1..Len(calls) :
                      calls[k].request.prompt
                        = FillPrompt(Take(Drop(text, 4000 * (k - 1)), 4000))

\* a text of 8001 characters handed over as slices of 4000, 4000 and 1
C7_Witness ==
    /\ FillCall
    /\ StrLen(call[1].text) = 8001
    /\ [k \in 1..Len(call[1].ret.calls) |->
          StrLen(call[1].ret.calls[k].request.prompt.form)] = <<4000, 4000, 1>>

\* a text of exactly 8000 characters handed over whole
C7_WitnessWhole ==
    /\ FillCall
    /\ StrLen(call[1].text) = 8000
    /\ Len(call[1].ret.calls) = 1

\* C8: the chunks of a text concatenate to the text, there are
\* ceil(len(text) / 4000) of them, none is longer than 4000 characters and
\* all but the last have exactly 4000.
C8_Partition ==
    FillCall =>
        LET text == call[1].text
            cs   == IF call[1].ret.split THEN call[1].ret.chunks
                    ELSE Chunks(text)
        IN  /\ Join(EmptyStr, cs) = text
            /\ Len(cs) = Ceil(StrLen(text), 4000)
            /\ \A k \in 1..Len(cs) : StrLen(cs[k]) <= 4000
            /\ \A k \in 1..(Len(cs) - 1) : StrLen(cs[k]) = 4000

\* a split text whose chunks are not of one character each and whose last
\* chunk is shorter than the others
C8_Witness ==
    /\ FillCall
    /\ call[1].ret.split
    /\ Len(call[1].text) = 2
    /\ StrLen(call[1].text) = 12001
    /\ Len(call[1].ret.chunks) = 4

-----------------------------------------------------------------------------
(* Properties of the PDF renderer *)

PdfCall == call # None /\ call[1].fn = "generate_pdf"

\* C4: every drawString of body text happens at y >= 40.
C4_DrawnAboveMargin ==
    (PdfCall /\ ~Frame.drawn.title) => Frame.drawn.y >= 40

Blank(line) == \A i \in 1..Len(line) : line[i][1] \in Whitespace

\* C9: a non-blank line of length L is drawn as ceil(L / 110) lines of at
\* most 110 characters, each at its own vertical position; a blank line is
\* not drawn and moves the cursor down by the line height.
C9_Wrapping ==
    (PdfCall /\ Frame.done # NoLine) =>
        LET d == Frame.done IN
        IF Blank(d.line)
        THEN d.draws = <<>> /\ d.y1 = d.y0 - 12
        ELSE /\ Len(d.draws) = Ceil(StrLen(d.line), 110)
             /\ \A i \in 1..Len(d.draws) : StrLen(d.draws[i].s) <= 110
             /\ \A i, j \in 1..Len(d.draws) :
                  i # j => d.draws[i].y # d.draws[j].y

\* a line of 111 characters drawn as two lines
C9_Witness ==
    /\ PdfCall
    /\ StrLen(Frame.done.line) = 111
    /\ ~Blank(Frame.done.line)
    /\ Len(Frame.done.draws) = 2

\* a line of exactly 110 characters drawn as one line
C9_WitnessExact ==
    /\ PdfCall
    /\ StrLen(Frame.done.line) = 110
    /\ Len(Frame.done.draws) = 1

-----------------------------------------------------------------------------
(* Properties of the session *)

\* C5: pdf_to_text is run at most once per uploaded document: once it has run
\* for the uploaded document, no later script run runs it again or changes
\* ocr_text, also when it failed and returned the empty text.
C5_OcrOnce ==
    [][(uploaded_file' = uploaded_file /\ ocr_runs >= 1)
          => (ocr_runs' = ocr_runs /\ ocr_text' = ocr_text)]_vars

\* C10: qa_history changes only by one pair appended at its end; a submitted
\* question appends exactly one pair, and a script run that is not the
\* submission of a question leaves qa_history unchanged and asks nothing.
C10_AppendOnSubmit ==
    [][/\ \/ qa_history' = qa_history
          \/ /\ Len(qa_history') = Len(qa_history) + 1
             /\ SubSeq(qa_history', 1, Len(qa_history)) = qa_history
       /\ run'[1].action = "submit"
            => /\ Len(qa_history') = Len(qa_history) + 1
               /\ qa_history'[Len(qa_history')].question = question'
       /\ run'[1].action # "submit"
            => /\ qa_history' = qa_history
               /\ run'[1].qa_calls = 0]_vars

====
